---- MODULE Spec2Model ----
(***************************************************************************)
(* LyricsFlow force mapper (LyricApp/force_mapper.py): clean_word and      *)
(* force_align, the alignment of a reference lyric text against a list of  *)
(* recognized words with timestamps.                                       *)
(*                                                                         *)
(* A Python str is a sequence of one-character strings.  Python list       *)
(* indices are kept 0-based: element i of a list s is s[i + 1].            *)
(* A time is an integer number of ticks of 0.0001 s, so a value that       *)
(* round(x, 3) yields is a multiple of 10 ticks, 0.5 s is 5000 ticks, and   *)
(* a recognized time may lie between two milliseconds.  Quotients are kept *)
(* exact (numerator, denominator) until they are rounded.                  *)
(***************************************************************************)
EXTENDS Integers, Sequences, FiniteSets, TLC

VARIABLES source_truth_text, whisper_result_json, truth_words, clean_truth,
          clean_whisper, matches, truth_to_whisper_map, synced_lyrics, i, pc,
          word, cleaned

vars == <<source_truth_text, whisper_result_json, truth_words, clean_truth,
          clean_whisper, matches, truth_to_whisper_map, synced_lyrics, i, pc,
          word, cleaned>>

(* ------------------------------ bounds -------------------------------- *)

\* Largest number of words of a reference text.
MaxTruth == 4

\* Largest number of recognized words.
MaxWhisper == 2

\* Largest numbers of reference words and of recognized words where the
\* words vary and the times do not.
MaxTruthW == 3

MaxWhisperW == 3

\* Largest length of a string handed to clean_word on its own.
MaxChars == 3

(* ----------------------------- characters ----------------------------- *)

\* re's \w on str: letters, digits and the underscore.  "U+0130" is the
\* letter LATIN CAPITAL LETTER I WITH DOT ABOVE; "U+0307" is COMBINING DOT
\* ABOVE, a mark (category Mn), which \w does not match.
IsWordChar(c) == c \in {"a", "b", "i", "A", "B", "U+0130", "_", "7"}

\* re's \s on str, and the characters str.strip() and str.split() take for
\* whitespace.
IsSpaceChar(c) == c \in {" ", "\t"}

\* str.lower() of one character; U+0130 lowers to the two characters
\* "i" U+0307.
LowerChar(c) ==
    CASE c = "A" -> <<"a">>
      [] c = "B" -> <<"b">>
      [] c = "U+0130" -> <<"i", "U+0307">>
      [] OTHER -> <<c>>

\* re.sub(r'[^\w\s]', '', s)
re_sub(s) == SelectSeq(s, LAMBDA c : IsWordChar(c) \/ IsSpaceChar(c))

RECURSIVE lower(_)
lower(s) == IF s = <<>> THEN <<>> ELSE LowerChar(Head(s)) \o lower(Tail(s))

RECURSIVE lstrip(_)
lstrip(s) == IF s # <<>> /\ IsSpaceChar(Head(s)) THEN lstrip(Tail(s)) ELSE s

RECURSIVE rstrip(_)
rstrip(s) ==
    IF s # <<>> /\ IsSpaceChar(s[Len(s)])
    THEN rstrip(SubSeq(s, 1, Len(s) - 1))
    ELSE s

strip(s) == rstrip(lstrip(s))

clean_word(w) == strip(lower(re_sub(w)))

\* str.split() without arguments: the maximal runs of non-whitespace.
RECURSIVE SplitFrom(_, _, _)
SplitFrom(s, k, cur) ==
    IF k > Len(s)
    THEN IF cur = <<>> THEN <<>> ELSE <<cur>>
    ELSE IF IsSpaceChar(s[k])
         THEN (IF cur = <<>> THEN <<>> ELSE <<cur>>) \o SplitFrom(s, k + 1, <<>>)
         ELSE SplitFrom(s, k + 1, Append(cur, s[k]))

\* A split that cuts at every single whitespace character.
split_EverySpace(s) ==
    LET RECURSIVE F(_, _)
        F(k, cur) ==
            IF k > Len(s) THEN <<cur>>
            ELSE IF IsSpaceChar(s[k]) THEN <<cur>> \o F(k + 1, <<>>)
                 ELSE F(k + 1, Append(cur, s[k]))
    IN  IF s = <<>> THEN <<>> ELSE F(1, <<>>)

split(s) == SplitFrom(s, 1, <<>>)

(* ------------------- difflib.SequenceMatcher(None, a, b) --------------- *)

\* Element k (0-based) of a Python list.
At(s, k) == s[k + 1]

\* The length of the longest common run of a[i:ahi] and b[j:bhi] that starts
\* at (i, j).
RECURSIVE RunLen(_, _, _, _, _, _)
RunLen(a, b, i0, j0, ahi, bhi) ==
    IF i0 < ahi /\ j0 < bhi /\ At(a, i0) = At(b, j0)
    THEN 1 + RunLen(a, b, i0 + 1, j0 + 1, ahi, bhi)
    ELSE 0

Max(S) == CHOOSE x \in S : \A y \in S : y <= x

Min(S) == CHOOSE x \in S : \A y \in S : x <= y

\* SequenceMatcher.find_longest_match without junk: the block (i, j, k) with
\* a[i:i+k] = b[j:j+k] inside a[alo:ahi], b[blo:bhi] of the largest k; of
\* those the one of the smallest i, and of those the one of the smallest j;
\* (alo, blo, 0) when no element matches.  (The sequences handled here are
\* shorter than the 200 elements from which autojunk drops popular elements.)
find_longest_match(a, b, alo, ahi, blo, bhi) ==
    LET starts == (alo .. ahi - 1) \X (blo .. bhi - 1)
        size(p) == RunLen(a, b, p[1], p[2], ahi, bhi)
        bestsize == Max({0} \cup {size(p) : p \in starts})
        best == {p \in starts : size(p) = bestsize}
        besti == Min({p[1] : p \in best})
        bestj == Min({p[2] : p \in {q \in best : q[1] = besti}})
    IN  IF bestsize = 0
        THEN [a |-> alo, b |-> blo, size |-> 0]
        ELSE [a |-> besti, b |-> bestj, size |-> bestsize]

\* The recursion of get_matching_blocks over the pieces left and right of
\* the longest block; its queue ends up sorted by reference index, which is
\* the order the pieces are put together in here.
RECURSIVE BlocksIn(_, _, _, _, _, _)
BlocksIn(a, b, alo, ahi, blo, bhi) ==
    LET x == find_longest_match(a, b, alo, ahi, blo, bhi)
    IN  IF x.size = 0
        THEN <<>>
        ELSE (IF alo < x.a /\ blo < x.b
              THEN BlocksIn(a, b, alo, x.a, blo, x.b)
              ELSE <<>>)
             \o <<x>> \o
             (IF x.a + x.size < ahi /\ x.b + x.size < bhi
              THEN BlocksIn(a, b, x.a + x.size, ahi, x.b + x.size, bhi)
              ELSE <<>>)

\* get_matching_blocks' pass that joins adjacent blocks.
RECURSIVE Collapse(_, _)
Collapse(blocks, cur) ==
    IF blocks = <<>>
    THEN IF cur.size > 0 THEN <<cur>> ELSE <<>>
    ELSE LET x == Head(blocks)
         IN  IF cur.a + cur.size = x.a /\ cur.b + cur.size = x.b
             THEN Collapse(Tail(blocks), [cur EXCEPT !.size = cur.size + x.size])
             ELSE (IF cur.size > 0 THEN <<cur>> ELSE <<>>)
                  \o Collapse(Tail(blocks), x)

\* A get_matching_blocks that looks for the blocks after the longest one in
\* all of b instead of in the part of b after it.
get_matching_blocks_Overlap(a, b) ==
    LET RECURSIVE F(_, _, _, _)
        F(alo, ahi, blo, bhi) ==
            LET x == find_longest_match(a, b, alo, ahi, blo, bhi)
            IN  IF x.size = 0
                THEN <<>>
                ELSE (IF alo < x.a /\ blo < x.b
                      THEN F(alo, x.a, blo, x.b)
                      ELSE <<>>)
                     \o <<x>> \o
                     (IF x.a + x.size < ahi
                      THEN F(x.a + x.size, ahi, blo, bhi)
                      ELSE <<>>)
    IN  F(0, Len(a), 0, Len(b)) \o <<[a |-> Len(a), b |-> Len(b), size |-> 0]>>

\* SequenceMatcher.get_matching_blocks: the blocks in increasing order,
\* adjacent ones joined, and the sentinel (len(a), len(b), 0) last.
get_matching_blocks(a, b) ==
    Collapse(BlocksIn(a, b, 0, Len(a), 0, Len(b)), [a |-> 0, b |-> 0, size |-> 0])
        \o <<[a |-> Len(a), b |-> Len(b), size |-> 0]>>

(* ------------------------------ times --------------------------------- *)

\* 0.5 s, the duration assumed per word after the last anchor.
HalfSecond == 5000

\* A start or end that is still None, and one that holds the time t.
None == <<>>

Some(t) == <<t>>

Val(v) == v[1]

\* round(num / den, 3) for den > 0, in ticks.  The code rounds a float: a
\* quotient that lies exactly halfway between two milliseconds is stored a
\* little below or a little above the half, so the result is either
\* neighbour; any other quotient has one result.
Round3(num, den) ==
    LET q == num \div (10 * den)
        r == num - q * (10 * den)
    IN  IF 2 * r < 10 * den THEN {10 * q}
        ELSE IF 2 * r > 10 * den THEN {10 * (q + 1)}
        ELSE {10 * q, 10 * (q + 1)}

(* ----------------------- the interpolation engine ---------------------- *)

\* The loop "while prev_idx >= 0": the nearest index below k + 1 whose start
\* is not None, -1 when there is none.
RECURSIVE PrevAnchor(_, _)
PrevAnchor(sl, k) ==
    IF k >= 0 /\ At(sl, k).start = None THEN PrevAnchor(sl, k - 1) ELSE k

\* The loop "while next_idx < len(synced_lyrics)": the nearest index from k
\* on whose start is not None, len(synced_lyrics) when there is none.
RECURSIVE NextAnchor(_, _)
NextAnchor(sl, k) ==
    IF k < Len(sl) /\ At(sl, k).start = None THEN NextAnchor(sl, k + 1) ELSE k

\* A search for the previous anchor that takes only directly matched words.
prev_idx_MatchedOnly(sl, k) ==
    LET RECURSIVE F(_)
        F(p) == IF p >= 0 /\ ~At(sl, p).match THEN F(p - 1) ELSE p
    IN  F(k - 1)

prev_idx(sl, k) == PrevAnchor(sl, k - 1)

prev_time(sl, k) ==
    IF prev_idx(sl, k) >= 0 THEN Val(At(sl, prev_idx(sl, k)).end) ELSE 0

next_idx(sl, k) == NextAnchor(sl, k + 1)

\* A next_time that counts 0.5 s for the whole tail instead of per word.
next_time_OneStep(sl, k) ==
    IF next_idx(sl, k) < Len(sl)
    THEN Val(At(sl, next_idx(sl, k)).start)
    ELSE prev_time(sl, k) + HalfSecond

next_time(sl, k) ==
    IF next_idx(sl, k) < Len(sl)
    THEN Val(At(sl, next_idx(sl, k)).start)
    ELSE prev_time(sl, k) + HalfSecond * (next_idx(sl, k) - prev_idx(sl, k))

missing_count(sl, k) == next_idx(sl, k) - prev_idx(sl, k) - 1

gap_duration(sl, k) == next_time(sl, k) - prev_time(sl, k)

local_offset(sl, k) == k - prev_idx(sl, k)

\* step = gap_duration / (missing_count + 1) is kept as this numerator and
\* denominator.
StepDen(sl, k) == missing_count(sl, k) + 1

\* A start that steps back from the previous anchor instead of forward.
StartOf_StepBack(sl, k) ==
    Round3(prev_time(sl, k) * StepDen(sl, k)
               - gap_duration(sl, k) * local_offset(sl, k),
           StepDen(sl, k))

\* The values round(prev_time + step * local_offset, 3) can take.
StartOf(sl, k) ==
    Round3(prev_time(sl, k) * StepDen(sl, k)
               + gap_duration(sl, k) * local_offset(sl, k),
           StepDen(sl, k))

\* An end that lies 0.8 steps before the start.
EndOf_Before(sl, k, start) ==
    Round3(start * 5 * StepDen(sl, k) - 4 * gap_duration(sl, k),
           5 * StepDen(sl, k))

\* The values round(start + step * 0.8, 3) can take.
EndOf(sl, k, start) ==
    Round3(start * 5 * StepDen(sl, k) + 4 * gap_duration(sl, k),
           5 * StepDen(sl, k))

(* ------------------------------ force_align ---------------------------- *)

\* Lines 15-25: the reference words, both lists of canonical tokens and the
\* matching blocks.
Tokenize ==
    /\ pc = "tokenize"
    /\ truth_words' = split(source_truth_text)
    /\ clean_truth' = [k \in 1 .. Len(split(source_truth_text)) |->
                          clean_word(split(source_truth_text)[k])]
    /\ clean_whisper' = [k \in 1 .. Len(whisper_result_json) |->
                            clean_word(whisper_result_json[k].word)]
    /\ matches' = get_matching_blocks(clean_truth', clean_whisper')
    /\ i' = 0
    /\ pc' = "map"
    /\ UNCHANGED <<source_truth_text, whisper_result_json, truth_to_whisper_map,
                   synced_lyrics, word, cleaned>>

\* Lines 33-34 for one match: truth_to_whisper_map[match.a + i] = match.b + i.
MapWith(map, match) ==
    [x \in DOMAIN map \cup (match.a .. match.a + match.size - 1) |->
        IF x \in match.a .. match.a + match.size - 1
        THEN match.b + (x - match.a)
        ELSE map[x]]

\* Lines 32-34, one turn of "for match in matches".
MapBlock ==
    /\ pc = "map"
    /\ i < Len(matches)
    /\ truth_to_whisper_map' = MapWith(truth_to_whisper_map, At(matches, i))
    /\ i' = i + 1
    /\ UNCHANGED <<source_truth_text, whisper_result_json, truth_words, clean_truth,
                   clean_whisper, matches, synced_lyrics, pc, word, cleaned>>

\* An entry that takes the times of the recognized word of the same index.
Entry_SameIndex(words, whisper, map, k) ==
    IF k \in DOMAIN map /\ k < Len(whisper)
    THEN [word |-> At(words, k), start |-> Some(At(whisper, k).start),
          end |-> Some(At(whisper, k).end), match |-> TRUE]
    ELSE [word |-> At(words, k), start |-> None, end |-> None, match |-> FALSE]

\* Lines 38-54: the entry of reference word k.
Entry(words, whisper, map, k) ==
    IF k \in DOMAIN map
    THEN [word |-> At(words, k), start |-> Some(At(whisper, map[k]).start),
          end |-> Some(At(whisper, map[k]).end), match |-> TRUE]
    ELSE [word |-> At(words, k), start |-> None, end |-> None, match |-> FALSE]

\* Lines 37-54, after the last match: the list of entries.
BuildList ==
    /\ pc = "map"
    /\ i = Len(matches)
    /\ synced_lyrics' = [k \in 1 .. Len(truth_words) |->
                            Entry(truth_words, whisper_result_json,
                                  truth_to_whisper_map, k - 1)]
    /\ i' = 0
    /\ pc' = "interpolate"
    /\ UNCHANGED <<source_truth_text, whisper_result_json, truth_words, clean_truth,
                   clean_whisper, matches, truth_to_whisper_map, word, cleaned>>

\* Lines 58-59, an entry whose start is set: the pass goes on.
InterpolateSkip ==
    /\ pc = "interpolate"
    /\ i < Len(synced_lyrics)
    /\ At(synced_lyrics, i).start # None
    /\ i' = i + 1
    /\ UNCHANGED <<source_truth_text, whisper_result_json, truth_words, clean_truth,
                   clean_whisper, matches, truth_to_whisper_map, synced_lyrics, pc,
                   word, cleaned>>

\* Lines 58-90, an entry whose start is None: it is filled in place.
InterpolateFill ==
    /\ pc = "interpolate"
    /\ i < Len(synced_lyrics)
    /\ At(synced_lyrics, i).start = None
    /\ \E start \in StartOf(synced_lyrics, i) :
         \E end \in EndOf(synced_lyrics, i, start) :
            synced_lyrics' = [synced_lyrics EXCEPT ![i + 1].start = Some(start),
                                                   ![i + 1].end = Some(end)]
    /\ i' = i + 1
    /\ UNCHANGED <<source_truth_text, whisper_result_json, truth_words, clean_truth,
                   clean_whisper, matches, truth_to_whisper_map, pc, word, cleaned>>

\* Line 92.
Return ==
    /\ pc = "interpolate"
    /\ i = Len(synced_lyrics)
    /\ pc' = "done"
    /\ UNCHANGED <<source_truth_text, whisper_result_json, truth_words, clean_truth,
                   clean_whisper, matches, truth_to_whisper_map, synced_lyrics, i,
                   word, cleaned>>

Next == Tokenize \/ MapBlock \/ BuildList \/ InterpolateSkip \/ InterpolateFill \/ Return

(* ------------------------------- inputs -------------------------------- *)

SeqsUpTo(S, n) == UNION {[1 .. k -> S] : k \in 0 .. n}

\* The words with sep between them.
RECURSIVE Glue(_, _)
Glue(ws, sep) ==
    IF ws = <<>> THEN <<>>
    ELSE IF Len(ws) = 1 THEN ws[1]
    ELSE ws[1] \o sep \o Glue(Tail(ws), sep)

\* The words joined by single blanks, or (padded) by runs of whitespace with
\* whitespace before and after.
JoinWords(ws, padded) ==
    IF padded
    THEN <<" ">> \o Glue(ws, <<" ", "\t">>) \o (IF ws = <<>> THEN <<>> ELSE <<"\t">>)
    ELSE Glue(ws, <<" ">>)

\* Reference words and recognized words of the canonical tokens "a" and "b".
TruthVocab == {<<"A", "!">>, <<"b">>}

WhisperVocab == {<<" ", "a">>, <<"B", ".">>}

\* (start, end) of a recognized word: on and between whole milliseconds,
\* apart, adjacent, overlapping and before time 0.
TimePairs ==
    {<<0, 1000>>, <<10000, 11000>>, <<0, 20000>>, <<1000, 2005>>,
     <<2005, 2010>>, <<-10000, -5000>>}

Idle ==
    /\ truth_words = <<>>
    /\ clean_truth = <<>>
    /\ clean_whisper = <<>>
    /\ matches = <<>>
    /\ truth_to_whisper_map = <<>>
    /\ synced_lyrics = <<>>
    /\ i = 0

\* force_align on a text of up to MaxTruth words and up to MaxWhisper
\* recognized words of any of the times.
Init ==
    /\ source_truth_text \in {JoinWords(ws, FALSE) : ws \in SeqsUpTo(TruthVocab, MaxTruth)}
    /\ whisper_result_json \in
          SeqsUpTo({[word |-> w, start |-> t[1], end |-> t[2]] :
                        w \in WhisperVocab, t \in TimePairs}, MaxWhisper)
    /\ Idle
    /\ pc = "tokenize"
    /\ word = <<>>
    /\ cleaned = <<>>

Spec == Init /\ [][Next]_vars

\* Words that test the matcher: the canonical tokens "a", "b" and the empty
\* token, in surface forms that differ between the two sides.
TruthVocabW == {<<"A", "!">>, <<"b">>, <<"?">>}

WhisperVocabW == {<<" ", "a">>, <<"B", ".">>, <<"!">>}

\* Recognized word k (0-based) of a recognition in time order: one second
\* per word, the word lasting half of it.
TimesAt(k) == <<10000 * k, 10000 * k + 5000>>

\* force_align on a text of up to MaxTruthW words, plainly or generously
\* spaced, and up to MaxWhisperW recognized words in time order.
InitWords ==
    /\ source_truth_text \in
          {JoinWords(ws, padded) : ws \in SeqsUpTo(TruthVocabW, MaxTruthW),
                                   padded \in BOOLEAN}
    /\ whisper_result_json \in
          {[k \in 1 .. Len(ws) |->
               [word |-> ws[k], start |-> TimesAt(k - 1)[1], end |-> TimesAt(k - 1)[2]]] :
             ws \in SeqsUpTo(WhisperVocabW, MaxWhisperW)}
    /\ Idle
    /\ pc = "tokenize"
    /\ word = <<>>
    /\ cleaned = <<>>

SpecWords == InitWords /\ [][Next]_vars

(* ------------------------- clean_word on its own ----------------------- *)

Alphabet == {"a", "A", "B", "U+0130", "U+0307", "!", " ", "_"}

\* clean_word(word)
CleanOnce ==
    /\ pc = "clean"
    /\ cleaned' = <<clean_word(word)>>
    /\ pc' = "cleaned"
    /\ UNCHANGED <<source_truth_text, whisper_result_json, truth_words, clean_truth,
                   clean_whisper, matches, truth_to_whisper_map, synced_lyrics, i,
                   word>>

\* clean_word(clean_word(word))
CleanAgain ==
    /\ pc = "cleaned"
    /\ cleaned' = Append(cleaned, clean_word(cleaned[1]))
    /\ pc' = "recleaned"
    /\ UNCHANGED <<source_truth_text, whisper_result_json, truth_words, clean_truth,
                   clean_whisper, matches, truth_to_whisper_map, synced_lyrics, i,
                   word>>

NextClean == CleanOnce \/ CleanAgain

InitClean ==
    /\ word \in SeqsUpTo(Alphabet, MaxChars)
    /\ cleaned = <<>>
    /\ pc = "clean"
    /\ source_truth_text = <<>>
    /\ whisper_result_json = <<>>
    /\ Idle

SpecClean == InitClean /\ [][NextClean]_vars

(* ------------------------------ properties ----------------------------- *)

\* Entry k (0-based) of the list force_align builds, and the indices it has.
Out(k) == At(synced_lyrics, k)

Indices == 0 .. Len(synced_lyrics) - 1

Built == pc \in {"interpolate", "done"}

Done == pc = "done"

\* The positions of a text at which a whitespace-delimited word begins.
WordStarts(s) ==
    {k \in 1 .. Len(s) : ~IsSpaceChar(s[k]) /\ (k = 1 \/ IsSpaceChar(s[k - 1]))}

\* The last position of the word that begins at k.
WordEnd(s, k) ==
    Min({e \in k .. Len(s) : e = Len(s) \/ IsSpaceChar(s[e + 1])})

\* C1: force_align returns exactly one record per whitespace-delimited word
\* of the reference text, in order, each with the word's surface form
\* unchanged; an empty or blank text yields an empty list.
C1_OneRecordPerWord ==
    Built =>
       /\ Len(synced_lyrics) = Cardinality(WordStarts(source_truth_text))
       /\ \A k \in WordStarts(source_truth_text) :
             synced_lyrics[Cardinality({x \in WordStarts(source_truth_text) : x <= k})].word
                = SubSeq(source_truth_text, k, WordEnd(source_truth_text, k))

C1_Witness ==
    /\ Done
    /\ Len(synced_lyrics) >= 3
    /\ Len(source_truth_text) > 0 /\ IsSpaceChar(source_truth_text[1])
    /\ \E k \in Indices : Out(k).word = <<"A", "!">> /\ Out(k).match
    /\ \E k \in Indices : ~Out(k).match

\* The pairs (reference index, recognized index) the matching blocks cover.
BlockPairs ==
    {p \in (0 .. Len(clean_truth) - 1) \X (0 .. Len(clean_whisper) - 1) :
        \E n \in 0 .. Len(matches) - 1 :
           /\ p[1] - At(matches, n).a = p[2] - At(matches, n).b
           /\ p[1] - At(matches, n).a \in 0 .. At(matches, n).size - 1}

\* C2: a reference word i that a matching block maps to recognized word j
\* has the canonical token of j (two empty tokens included), and from the
\* moment the list is built until it is returned its entry holds j's start
\* and end exactly, with match true: the interpolation pass leaves it alone.
C2_DirectMatchFidelity ==
    \A p \in BlockPairs :
       /\ At(clean_truth, p[1]) = At(clean_whisper, p[2])
       /\ Built =>
             /\ Out(p[1]).start = Some(At(whisper_result_json, p[2]).start)
             /\ Out(p[1]).end = Some(At(whisper_result_json, p[2]).end)
             /\ Out(p[1]).match

C2_Witness ==
    /\ Done
    /\ \E p \in BlockPairs : p[1] # p[2] /\ At(clean_truth, p[1]) = <<>>
    /\ \E p \in BlockPairs : At(clean_truth, p[1]) # <<>>
    /\ \E k \in Indices : ~Out(k).match

\* The maximal runs of unmatched words between two directly matched words:
\* p and q are matched and every word between them is not.
Runs ==
    {r \in Indices \X Indices :
        /\ r[1] + 1 < r[2]
        /\ Out(r[1]).match /\ Out(r[2]).match
        /\ \A k \in r[1] + 1 .. r[2] - 1 : ~Out(k).match}

\* C3: the k-th word of a run of m unmatched words between the anchors p
\* (end P) and q (start N) starts at round(P + k * (N - P) / (m + 1), 3) and
\* has match false.
C3_EqualSteps ==
    Done =>
       \A r \in Runs :
          LET m == r[2] - r[1] - 1
              P == Val(Out(r[1]).end)
              N == Val(Out(r[2]).start)
          IN  \A k \in 1 .. m :
                 /\ ~Out(r[1] + k).match
                 /\ Val(Out(r[1] + k).start) \in Round3(P * (m + 1) + k * (N - P), m + 1)

\* Every recognized word ends no earlier than it starts.
WellFormed ==
    \A k \in 1 .. Len(whisper_result_json) :
       whisper_result_json[k].start <= whisper_result_json[k].end

\* The recognized words are in time order from time 0 on: none starts before
\* 0 or before the word before it has ended.
Chronological ==
    /\ WellFormed
    /\ \A k \in 1 .. Len(whisper_result_json) : whisper_result_json[k].start >= 0
    /\ \A k \in 2 .. Len(whisper_result_json) :
          whisper_result_json[k - 1].end <= whisper_result_json[k].start

\* C4 as stated: when every recognized word has start <= end, every record
\* returned has start <= end.
C4_StartLeEnd ==
    (Done /\ WellFormed) =>
       \A k \in Indices : Val(Out(k).start) <= Val(Out(k).end)

\* C4 as amended: when the recognized words have start <= end and are in
\* time order from time 0 on without overlap, every record returned has
\* start <= end.
C4_StartLeEndChronological ==
    (Done /\ Chronological) =>
       \A k \in Indices : Val(Out(k).start) <= Val(Out(k).end)

C4_Witness ==
    /\ Done
    /\ Chronological
    /\ Len(whisper_result_json) >= 2
    /\ Runs # {}
    /\ \E k \in Indices : ~Out(k).match /\ Val(Out(k).start) < Val(Out(k).end)

\* A time rounded down and rounded up to a whole millisecond.
FloorMs(t) == 10 * (t \div 10)

CeilMs(t) == - FloorMs(- t)

\* C5 as stated: in a run between the anchors p (end P) and q (start N) with
\* P <= N the interpolated starts are non-decreasing and lie in [P, N].
C5_WithinAnchors ==
    Done =>
       \A r \in Runs :
          LET P == Val(Out(r[1]).end)
              N == Val(Out(r[2]).start)
          IN  P <= N =>
                 /\ \A k \in r[1] + 1 .. r[2] - 2 :
                       Val(Out(k).start) <= Val(Out(k + 1).start)
                 /\ \A k \in r[1] + 1 .. r[2] - 1 :
                       P <= Val(Out(k).start) /\ Val(Out(k).start) <= N

\* C5 as amended: with P <= N the interpolated starts are non-decreasing and
\* lie between P rounded down and N rounded up to a whole millisecond, hence
\* in [P, N] when P and N are whole milliseconds.
C5_WithinRoundedAnchors ==
    Done =>
       \A r \in Runs :
          LET P == Val(Out(r[1]).end)
              N == Val(Out(r[2]).start)
          IN  P <= N =>
                 /\ \A k \in r[1] + 1 .. r[2] - 2 :
                       Val(Out(k).start) <= Val(Out(k + 1).start)
                 /\ \A k \in r[1] + 1 .. r[2] - 1 :
                       /\ FloorMs(P) <= Val(Out(k).start)
                       /\ Val(Out(k).start) <= CeilMs(N)

C5_Witness ==
    /\ Done
    /\ \E r \in Runs :
          /\ r[2] - r[1] >= 3
          /\ Val(Out(r[1]).end) < Val(Out(r[2]).start)
          /\ Val(Out(r[1] + 1).start) < Val(Out(r[1] + 2).start)

\* C6: with no recognized word every record has match false, the first word
\* starts one 0.5 s step after time 0.0 and every later word starts 0.5 s
\* after the start of the word before it.
C6_HalfSecondTimeline ==
    (Done /\ whisper_result_json = <<>> /\ Len(synced_lyrics) >= 1) =>
       /\ \A k \in Indices : ~Out(k).match
       /\ Val(Out(0).start) = HalfSecond
       /\ \A k \in Indices \ {0} :
             Val(Out(k).start) = Val(Out(k - 1).start) + HalfSecond

\* The last word is unmatched and the word before it is directly matched.
TailCase ==
    /\ Done
    /\ Len(synced_lyrics) >= 2
    /\ ~Out(Len(synced_lyrics) - 1).match
    /\ Out(Len(synced_lyrics) - 2).match

\* C7 as stated: in the tail case, T the anchor's end, the last word has
\* match false and its start is round(T + 0.5, 3), however the float T + 0.5
\* is rounded.
C7_TailExact ==
    TailCase =>
       /\ ~Out(Len(synced_lyrics) - 1).match
       /\ Round3(Val(Out(Len(synced_lyrics) - 2).end) + HalfSecond, 1)
             = {Val(Out(Len(synced_lyrics) - 1).start)}

\* C7 as amended: in the tail case the last word has match false and its
\* start is T + 0.5 rounded to a whole millisecond, either neighbour when
\* T + 0.5 lies exactly halfway between two.
C7_TailRounded ==
    TailCase =>
       /\ ~Out(Len(synced_lyrics) - 1).match
       /\ Val(Out(Len(synced_lyrics) - 1).start)
             \in Round3(Val(Out(Len(synced_lyrics) - 2).end) + HalfSecond, 1)

C7_Witness ==
    /\ TailCase
    /\ Len(synced_lyrics) >= 3
    /\ Val(Out(Len(synced_lyrics) - 2).end) > 0
    /\ Val(Out(Len(synced_lyrics) - 1).start)
          = Val(Out(Len(synced_lyrics) - 2).end) + HalfSecond

\* C8: clean_word(clean_word(w)) = clean_word(w).
C8_Idempotent == pc = "recleaned" => cleaned[2] = cleaned[1]

\* C9: the map is strictly order-preserving, hence injective; the blocks
\* follow one another in both sequences; and a block about to be entered
\* assigns no reference index that has a value and no recognized index that
\* is taken.
C9_MapInjectiveOrdered ==
    /\ \A x, y \in DOMAIN truth_to_whisper_map :
          x < y => truth_to_whisper_map[x] < truth_to_whisper_map[y]
    /\ \A n \in 1 .. Len(matches) - 1 :
          /\ matches[n].a + matches[n].size <= matches[n + 1].a
          /\ matches[n].b + matches[n].size <= matches[n + 1].b
    /\ (pc = "map" /\ i < Len(matches)) =>
          \A k \in 0 .. At(matches, i).size - 1 :
             /\ At(matches, i).a + k \notin DOMAIN truth_to_whisper_map
             /\ \A x \in DOMAIN truth_to_whisper_map :
                   truth_to_whisper_map[x] # At(matches, i).b + k

C9_Witness ==
    /\ Done
    /\ Len(matches) >= 3
    /\ Cardinality(DOMAIN truth_to_whisper_map) >= 2
    /\ \E x \in 0 .. Len(clean_truth) - 1 :
          /\ x \notin DOMAIN truth_to_whisper_map
          /\ \E y \in DOMAIN truth_to_whisper_map :
                At(clean_whisper, truth_to_whisper_map[y]) = At(clean_truth, x)

\* The directly matched word nearest after k, Len(synced_lyrics) when there
\* is none.
RECURSIVE NextMatched(_)
NextMatched(k) ==
    IF k < Len(synced_lyrics) /\ ~Out(k).match THEN NextMatched(k + 1) ELSE k

\* C10: when the pass is about to fill entry i, the anchor before it is
\* entry i - 1 (index -1 and time 0.0 for i = 0), so local_offset is 1 and
\* missing_count is at least 1; and every filled entry k >= 1 has the start
\* that one step from the resolved end of entry k - 1 towards the next
\* directly matched word (or the 0.5 s per word tail) gives.
C10_FilledInPlace ==
    /\ (pc = "interpolate" /\ i < Len(synced_lyrics) /\ Out(i).start = None) =>
          /\ prev_idx(synced_lyrics, i) = i - 1
          /\ local_offset(synced_lyrics, i) = 1
          /\ missing_count(synced_lyrics, i) >= 1
          /\ prev_time(synced_lyrics, i) = (IF i = 0 THEN 0 ELSE Val(Out(i - 1).end))
    /\ Built =>
          \A k \in Indices :
             (~Out(k).match /\ Out(k).start # None) =>
                LET P == IF k = 0 THEN 0 ELSE Val(Out(k - 1).end)
                    q == NextMatched(k + 1)
                    N == IF q < Len(synced_lyrics)
                         THEN Val(Out(q).start)
                         ELSE P + HalfSecond * (q - k + 1)
                IN  Val(Out(k).start) \in Round3(P * (q - k + 1) + (N - P), q - k + 1)

C10_Witness ==
    /\ pc = "interpolate"
    /\ i >= 2 /\ i < Len(synced_lyrics)
    /\ Out(i).start = None
    /\ ~Out(i - 1).match
    /\ Out(i - 2).match
    /\ NextMatched(i) < Len(synced_lyrics)

====
